---- MODULE Spec2Model ----
(***************************************************************************)
(* CodeWordle (src/main.cpp): the CodeSnippet reveal grid and matching     *)
(* engine, and the Game modes that drive it.                               *)
(*                                                                         *)
(* A line of text is a sequence of one-character strings.  The C++ code    *)
(* indexes from 0; window offsets j and in-window offsets k keep the       *)
(* code's 0-based values and are shifted by one where a sequence is read.  *)
(***************************************************************************)
EXTENDS Integers, Sequences, FiniteSets, TLC

\* ------------------------------------------------------------------ bounds

\* longest guess string handed to CodeSnippet::guess on its own
MaxGuessLen == 4

\* longest guess string the player types in a game
MaxTypedLen == 3

\* number of files of SnippetFiles a CodeSnippet is loaded from on its own
NumFiles == 5

\* number of files of RepoFiles the game's repository holds
NumRepoFiles == 3

\* the steady clock is followed up to this many seconds
MaxClock == 65

\* accepted guesses followed in the modes that have no guess limit
MaxFreeGuesses == 2

\* longest one-line snippet a session of LimitSpec or TimeSpec is started on
MaxTotal == 80

\* longest one-line snippet a guess-limited session is played on
MaxPlayedTotal == 7

\* longest one-line snippet a time-attack session is played on
MaxTimedTotal == 2

\* the long snippet of the point sessions: LongLines lines of LongLine letters
LongLine == 25
LongLines == 4

\* accepted guesses followed in a point session of PointSpec
MaxPointGuesses == 10

\* ------------------------------------------------- CodeSnippet constants

MIN_LEN == 3
UNGUESSED == 0
FUZZY_MATCH == 1
EXACT_MATCH == 2
FUZZY_FAIL == 1
FUZZY_COUNT == 2

Blank == " "
Tab == "\t"

\* characters the player types and the snippet files hold
Alphabet == {"a", "b", Blank}

\* ---------------------------------------------------------- snippet files

FirstOf(seq, n) == { seq[k] : k \in 1..(IF n < Len(seq) THEN n ELSE Len(seq)) }

\* raw text files (before loadFromFile) a CodeSnippet is constructed on
SnippetFiles ==
    << << <<"a", "a", "a", "a">> >>,
       << <<"a", "b">>, <<"b", "a">> >>,
       << <<Tab, "b">> >>,
       << >>,
       << <<"a", "a", "b">>, << >> >>,
       << <<"b", "a", "b">> >> >>

Files == FirstOf(SnippetFiles, NumFiles)

\* raw text files of the CodeSnippets directory the Game draws from
RepoFileList ==
    << << <<"a", "b">> >>,
       << <<"a">>, <<"b">> >>,
       << >>,
       << <<"b">> >> >>

RepoFiles == FirstOf(RepoFileList, NumRepoFiles)

\* ------------------------------------------------------------ loadFromFile

RECURSIVE ExpandTabs(_)
\* every '\t' of the line replaced by 4 blanks
ExpandTabs(line) ==
    IF line = << >> THEN << >>
    ELSE (IF Head(line) = Tab THEN <<Blank, Blank, Blank, Blank>> ELSE <<Head(line)>>)
         \o ExpandTabs(Tail(line))

\* line.append(MIN_LEN-1,' ')
\* variant: one blank fewer appended
PaddingOneShort == [k \in 1..(MIN_LEN - 2) |-> Blank]
Padding == [k \in 1..(MIN_LEN - 1) |-> Blank]

LoadLine(line) == ExpandTabs(line) \o Padding

\* the code vector after loadFromFile
LoadCode(raw) == [i \in 1..Len(raw) |-> LoadLine(raw[i])]

\* the state vector after loadFromFile: value-initialised ints
LoadState(raw) == [i \in 1..Len(raw) |-> [p \in 1..Len(LoadLine(raw[i])) |-> UNGUESSED]]

\* ------------------------------------------------------- aggregate queries

\* positions (line i, 0-based column j) of the buffer
Positions(c) == UNION { { <<i, j>> : j \in 0..(Len(c[i]) - 1) } : i \in 1..Len(c) }

IsVisible(c, pos) == c[pos[1]][pos[2] + 1] # Blank

getTotalNumber(c) == Cardinality({ pos \in Positions(c) : IsVisible(c, pos) })

\* variant of getGuessedNumber: the line[j] != ' ' test dropped
getGuessedNumberAnyChar(c, st) ==
    Cardinality({ pos \in Positions(c) : st[pos[1]][pos[2] + 1] = EXACT_MATCH })
getGuessedNumber(c, st) ==
    Cardinality({ pos \in Positions(c) :
                    IsVisible(c, pos) /\ st[pos[1]][pos[2] + 1] = EXACT_MATCH })

\* --------------------------------------------------------------- getMasked

\* the character getMasked leaves at a position holding ch in state s
\* variant: the line[j] == ' ' test dropped
MaskCharNoBlankTest(ch, s, placeholder, fuzzyPlaceholder) ==
    IF s = EXACT_MATCH THEN ch
    ELSE IF s = UNGUESSED THEN placeholder
    ELSE IF s = FUZZY_MATCH THEN fuzzyPlaceholder
    ELSE ch
MaskChar(ch, s, placeholder, fuzzyPlaceholder) ==
    IF ch = Blank \/ s = EXACT_MATCH THEN ch
    ELSE IF s = UNGUESSED THEN placeholder
    ELSE IF s = FUZZY_MATCH THEN fuzzyPlaceholder
    ELSE ch

\* getMasked(placeholder, fuzzyPlaceholder): a copy of each line, masked
getMasked(c, st, placeholder, fuzzyPlaceholder) ==
    [i \in 1..Len(c) |->
        [j \in 1..Len(c[i]) |-> MaskChar(c[i][j], st[i][j], placeholder, fuzzyPlaceholder)]]

\* ------------------------------------------------------------------ reveal

\* posVec: the visible positions not yet EXACT_MATCH
\* variant: the line[j] != ' ' test dropped
posVecAnyChar(c, st) ==
    { pos \in Positions(c) : st[pos[1]][pos[2] + 1] # EXACT_MATCH }
posVec(c, st) ==
    { pos \in Positions(c) : IsVisible(c, pos) /\ st[pos[1]][pos[2] + 1] # EXACT_MATCH }

\* state[pos[0]][pos[1]]=EXACT_MATCH
RevealAt(st, pos) == [st EXCEPT ![pos[1]][pos[2] + 1] = EXACT_MATCH]

\* the grids reveal() may leave: unchanged when posVec is empty, else one
\* candidate of posVec (dist(gen) is any index of posVec)
revealOutcomes(c, st) ==
    IF posVec(c, st) = {} THEN {st}
    ELSE { RevealAt(st, pos) : pos \in posVec(c, st) }

\* ------------------------------------------------------------------- guess

\* line.substr(j,len)
substr(line, j, len) == SubSeq(line, j + 1, j + len)

\* if(len<MIN_LEN) return {-1,-1}
\* variant: the length test off by one
TooShortM(g) == Len(g) < MIN_LEN - 1
TooShort(g) == Len(g) < MIN_LEN

\* last window offset of a line: j <= (int)line.size()-len
\* variant: the loop bound written j < size-len
LastOffsetM(line, len) == Len(line) - len - 1
LastOffset(line, len) == Len(line) - len

\* line.substr(j,len) == guess
IsExactWindow(line, j, g) == substr(line, j, Len(g)) = g

\* failmatch: aligned positions where window and guess differ
failmatch(line, j, g) == Cardinality({ k \in 0..(Len(g) - 1) : line[j + k + 1] # g[k + 1] })

\* count: non-blank characters of the guess
count(g) == Cardinality({ k \in 0..(Len(g) - 1) : g[k + 1] # Blank })

\* if(failmatch <= FUZZY_FAIL && count >= FUZZY_COUNT)
\* variant: one more mismatch tolerated
IsFuzzyWindowM(line, j, g) == failmatch(line, j, g) <= FUZZY_FAIL + 1 /\ count(g) >= FUZZY_COUNT
IsFuzzyWindow(line, j, g) == failmatch(line, j, g) <= FUZZY_FAIL /\ count(g) >= FUZZY_COUNT

\* whether the fuzzy test is run on a window: not after the exact branch's
\* continue, and not when fuzzy matching is off
\* variants: the exact branch without its continue; the fuzzy test run
\* whatever fuzzyAllowed says
FuzzyEvaluatedNoContinue(exactHit, fz) == fz
FuzzyEvaluatedAlways(exactHit, fz) == ~exactHit
FuzzyEvaluated(exactHit, fz) == ~exactHit /\ fz

\* for(k) state[i][j+k]=EXACT_MATCH
\* variant: only UNGUESSED entries set, a FUZZY_MATCH entry kept
MarkExactUnguessedOnly(row, j, len) ==
    SubSeq(row, 1, j)
    \o [k \in 1..len |-> IF row[j + k] = UNGUESSED THEN EXACT_MATCH ELSE row[j + k]]
    \o SubSeq(row, j + len + 1, Len(row))
MarkExact(row, j, len) ==
    SubSeq(row, 1, j) \o [k \in 1..len |-> EXACT_MATCH] \o SubSeq(row, j + len + 1, Len(row))

\* for(k) if(state[i][j+k] == UNGUESSED) state[i][j+k]=FUZZY_MATCH
\* variant: without the UNGUESSED test
MarkFuzzyOverwrite(row, j, len) ==
    SubSeq(row, 1, j) \o [k \in 1..len |-> FUZZY_MATCH] \o SubSeq(row, j + len + 1, Len(row))
MarkFuzzy(row, j, len) ==
    SubSeq(row, 1, j)
    \o [k \in 1..len |-> IF row[j + k] = UNGUESSED THEN FUZZY_MATCH ELSE row[j + k]]
    \o SubSeq(row, j + len + 1, Len(row))

\* std::array<int,2> result{}; if(!fuzzyAllowed) result[1]=-1
InitialResult(fz) == IF fz THEN <<0, 0>> ELSE <<0, -1>>

\* one pass of the body of the j loop on window (i, j).  acc carries the
\* result array and the state vector; exact and fuzzy record the windows on
\* which result[0]++ and result[1]++ ran.
WindowStep(c, acc, g, fz, i, j) ==
    LET exactHit == IsExactWindow(c[i], j, g)
        fuzzyHit == FuzzyEvaluated(exactHit, fz) /\ IsFuzzyWindow(c[i], j, g)
        st1      == IF exactHit
                    THEN [acc.state EXCEPT ![i] = MarkExact(@, j, Len(g))]
                    ELSE acc.state
        st2      == IF fuzzyHit
                    THEN [st1 EXCEPT ![i] = MarkFuzzy(@, j, Len(g))]
                    ELSE st1
    IN  [ result |-> << acc.result[1] + (IF exactHit THEN 1 ELSE 0),
                        acc.result[2] + (IF fuzzyHit THEN 1 ELSE 0) >>,
          state  |-> st2,
          exact  |-> IF exactHit THEN acc.exact \cup {<<i, j>>} ELSE acc.exact,
          fuzzy  |-> IF fuzzyHit THEN acc.fuzzy \cup {<<i, j>>} ELSE acc.fuzzy,
          scanned |-> acc.scanned \cup {<<i, j>>} ]

RECURSIVE ScanLineOnePast(_, _, _, _, _, _)
RECURSIVE ScanLine(_, _, _, _, _, _)
\* the j loop of line i, from window (i, j) on
\* variant: the loop going one offset past line.size()-len, the window
\* read there comparing unequal
ScanLineOnePast(c, acc, g, fz, i, j) ==
    IF j > LastOffset(c[i], Len(g)) THEN [acc EXCEPT !.scanned = @ \cup {<<i, j>>}]
    ELSE ScanLineOnePast(c, WindowStep(c, acc, g, fz, i, j), g, fz, i, j + 1)
ScanLine(c, acc, g, fz, i, j) ==
    IF j > LastOffset(c[i], Len(g)) THEN acc
    ELSE ScanLine(c, WindowStep(c, acc, g, fz, i, j), g, fz, i, j + 1)

RECURSIVE Scan(_, _, _, _, _)
\* the i loop, from line i on: line i is scanned to its end, and the scan
\* goes on from what that left
Scan(c, acc, g, fz, i) ==
    IF i > Len(c) THEN acc
    ELSE CHOOSE end \in { Scan(c, done, g, fz, i + 1) : done \in {ScanLine(c, acc, g, fz, i, 0)} } : TRUE

\* CodeSnippet::guess: the returned array, the state vector it leaves, and
\* the windows it scanned and counted
guess(c, st, fz, g) ==
    IF TooShort(g)
    THEN [result |-> <<-1, -1>>, state |-> st, exact |-> {}, fuzzy |-> {}, scanned |-> {}]
    ELSE Scan(c, [result |-> InitialResult(fz), state |-> st,
                  exact |-> {}, fuzzy |-> {}, scanned |-> {}], g, fz, 1)

\* ------------------------------------------------------------------- check

RECURSIVE LineStopsAt(_, _, _)
\* the j loop of check(): TRUE when it meets a visible position that is not
\* EXACT_MATCH (where it sets ok=false and breaks)
LineStopsAt(line, row, j) ==
    IF j >= Len(line) THEN FALSE
    ELSE IF line[j + 1] # Blank /\ row[j + 1] # EXACT_MATCH THEN TRUE
    ELSE LineStopsAt(line, row, j + 1)

\* ok after the j loop of line i
\* variant: ok decided by the last line alone
OkAfterLineReset(ok, stopped) == ~stopped
OkAfterLine(ok, stopped) == IF stopped THEN FALSE ELSE ok

RECURSIVE checkFrom(_, _, _, _)
checkFrom(c, st, i, ok) ==
    IF i > Len(c) THEN ok
    ELSE checkFrom(c, st, i + 1, OkAfterLine(ok, LineStopsAt(c[i], st[i], 0)))

\* CodeSnippet::check
check(c, st) == checkFrom(c, st, 1, TRUE)

\* ------------------------------------------------------------------- state

VARIABLES
    code,            \* CodeSnippet::code
    state,           \* CodeSnippet::state
    snippetFuzzy,    \* CodeSnippet::fuzzyAllowed
    call,            \* the last CodeSnippet/Game call: its argument, the grid before it, what it returned
    repoEmpty,       \* CodeRepo::cacheVec.empty()
    config,          \* pointGame::guessPenalty, pointFactor, rewardFactor of the game constructed
    autoCount,       \* AutoGuess::count of the driver's hint generator
    ui,              \* the driver: "console" (UI::showGamePage) or "gui" (GUI callbacks)
    mode,            \* the Game subclass constructed
    pc,              \* the driver's position
    guesses,         \* Game::guesses
    fuzzyAllowed,    \* Game::fuzzyAllowed
    showPID,         \* Game::showPID
    maxGuesses,      \* guessLimitedGame::maxGuesses
    maxTime,         \* timeAttackGame::maxTime
    totalNumber,     \* pointGame::totalNumber
    now,             \* steady_clock, whole seconds
    startTime,       \* timeAttackGame::startTime
    lastRevealTime,  \* timeAttackGame::lastRevealTime
    reveals,         \* number of snippet.reveal() calls of the session
    points,          \* pointGame::points
    msg,             \* what the last makeGuess answered
    gameHistory      \* StatisticsRepo::gameHistory, one record per addGame

vars == << code, state, snippetFuzzy, call, repoEmpty, autoCount, config, ui, mode, pc, guesses, fuzzyAllowed,
           showPID, maxGuesses, maxTime, totalNumber, now, startTime, lastRevealTime,
           reveals, points, msg, gameHistory >>

snippetVars == << code, snippetFuzzy >>

gameVars == << repoEmpty, autoCount, config, ui, mode, pc, guesses, fuzzyAllowed, showPID, maxGuesses, maxTime,
               totalNumber, now, startTime, lastRevealTime, reveals, points, msg,
               gameHistory >>

\* strings of exactly n characters
RECURSIVE StringsOfLen(_)
StringsOfLen(n) ==
    IF n = 0 THEN { << >> }
    ELSE { Append(s, ch) : s \in StringsOfLen(n - 1), ch \in Alphabet }

\* what the player may type as a guess
GuessInputs == UNION { StringsOfLen(n) : n \in 0..MaxGuessLen }

NoCall == [op |-> "none", guess |-> << >>, before |-> << >>, after |-> << >>,
           result |-> <<0, 0>>, exact |-> {}, fuzzy |-> {}, scanned |-> {}, masked |-> << >>]

\* the record of a guess(g) call made on grid st with outcome r
GuessCall(g, st, r) ==
    [op |-> "guess", guess |-> g, before |-> st, after |-> r.state, result |-> r.result,
     exact |-> r.exact, fuzzy |-> r.fuzzy, scanned |-> r.scanned, masked |-> << >>]

RevealCall(st) == [NoCall EXCEPT !.op = "reveal", !.before = st]

\* the placeholder pairs getMasked is called with: the defaults '@' and '#',
\* characters of the code, and one character for both
Placeholders == { <<"@", "#">>, <<"a", "b">>, <<"#", "#">> }

\* the record of a getMasked(ph[1], ph[2]) call made on grid st
MaskedCall(ph, st, view) ==
    [NoCall EXCEPT !.op = "getMasked", !.guess = ph, !.before = st, !.after = st,
                   !.masked = view]

\* points(0) of the pointGame constructor; points is the exact fraction
\* num/den, or not a number (0.0/0)
ZeroPoints == [nan |-> FALSE, num |-> 0, den |-> 1]

NoMsg == [kind |-> "none", matches |-> 0, fuzzy |-> 0]

\* no pointGame object
NoGame == [error |-> "none"]

\* ------------------------------------------- CodeSnippet driven on its own

\* CodeSnippet(filePath, fuzzy): a file loaded with either fuzzy setting
SnippetInit ==
    /\ \E raw \in Files : code = LoadCode(raw) /\ state = LoadState(raw)
    /\ snippetFuzzy \in BOOLEAN
    /\ call = NoCall
    /\ repoEmpty = FALSE
    /\ config = NoGame
    /\ autoCount = 0
    /\ ui = "none"
    /\ mode = "none"
    /\ pc = "snippet"
    /\ guesses = 0
    /\ fuzzyAllowed = snippetFuzzy
    /\ showPID = FALSE
    /\ maxGuesses = 0
    /\ maxTime = 0
    /\ totalNumber = 0
    /\ now = 0
    /\ startTime = 0
    /\ lastRevealTime = 0
    /\ reveals = 0
    /\ points = ZeroPoints
    /\ msg = NoMsg
    /\ gameHistory = << >>

\* snippet.guess(g)
SnippetGuess(g) ==
    LET r == guess(code, state, snippetFuzzy, g)
    IN  /\ call.op = "none"
        /\ state' = r.state
        /\ call' = GuessCall(g, state, r)
        /\ UNCHANGED << snippetVars, gameVars >>

\* snippet.reveal()
SnippetReveal ==
    /\ call.op = "none"
    /\ state' \in revealOutcomes(code, state)
    /\ call' = RevealCall(state)
    /\ UNCHANGED << snippetVars, gameVars >>

\* snippet.getMasked(ph[1], ph[2])
SnippetMasked(ph) ==
    /\ call.op = "none"
    /\ call' = MaskedCall(ph, state, getMasked(code, state, ph[1], ph[2]))
    /\ UNCHANGED << state, snippetVars, gameVars >>

\* the call has returned to its caller; its record is dropped
SnippetReturn ==
    /\ call.op # "none"
    /\ call' = NoCall
    /\ UNCHANGED << state, snippetVars, gameVars >>

SnippetNext ==
    \/ \E g \in GuessInputs : SnippetGuess(g)
    \/ SnippetReveal
    \/ \E ph \in Placeholders : SnippetMasked(ph)
    \/ SnippetReturn

SnippetSpec == SnippetInit /\ [][SnippetNext]_vars

\* -------------------------------------------------------------- Game modes

Modes == {"guessLimited", "timeAttack", "point"}

\* guessLimitedGame::revealGuesses, timeAttackGame::revealTime
revealGuesses == 5
revealTime == 10

\* defaults of the pointGame constructor: penalty, pfactor, rfactor = 1.5
guessPenalty == 100
pointFactor == 500
rewardFactorNum == 3
rewardFactorDen == 2

\* a double: the fraction num/den (den > 0), or not a number
Double(n, d) == [nan |-> FALSE, num |-> n, den |-> d]
NaN == [nan |-> TRUE, num |-> 0, den |-> 1]

\* x <= 0 and x < 1.0 on doubles (false when x is not a number)
LeqZero(x) == ~x.nan /\ x.num <= 0
LessOne(x) == ~x.nan /\ x.num < x.den

\* pointGame(repo,stats,fuzzy,show,penalty,pfactor,rfactor): the exception
\* thrown ("" for none) and the members of the object constructed
\* variant: rfactor tested with <=
pointGameRejectsOne(penalty, pfactor, rfactor) ==
    IF LeqZero(penalty) THEN [error |-> "Penalty must be positive"]
    ELSE IF LeqZero(pfactor) THEN [error |-> "Point factor must be positive"]
    ELSE IF ~rfactor.nan /\ rfactor.num <= rfactor.den THEN [error |-> "Reward factor must be not less than 1.0"]
    ELSE [error |-> "", guessPenalty |-> penalty, pointFactor |-> pfactor,
          rewardFactor |-> rfactor]
pointGame(penalty, pfactor, rfactor) ==
    IF LeqZero(penalty) THEN [error |-> "Penalty must be positive"]
    ELSE IF LeqZero(pfactor) THEN [error |-> "Point factor must be positive"]
    ELSE IF LessOne(rfactor) THEN [error |-> "Reward factor must be not less than 1.0"]
    ELSE [error |-> "", guessPenalty |-> penalty, pointFactor |-> pfactor,
          rewardFactor |-> rfactor]

\* new pointGame(repo,stats,false,false): penalty=100, pfactor=500, rfactor=1.5
DefaultPointGame ==
    pointGame(Double(guessPenalty, 1), Double(pointFactor, 1),
              Double(rewardFactorNum, rewardFactorDen))

TokenP == <<"P">>
TokenF == <<"F">>
TokenE == <<"E">>

\* what the player may type in a game: guesses and the control tokens
GameInputs == { g \in GuessInputs : Len(g) <= MaxTypedLen } \cup {TokenP, TokenF}

Max(a, b) == IF a >= b THEN a ELSE b

\* the fuzzy and show arguments the drivers construct each mode with
ConstructedFuzzy(m) == m # "point"
ConstructedShow(m) == m # "point"

\* maxGuesses=std::max(total/3+5,30)
MaxGuessesFor(total) == Max(total \div 3 + 5, 30)

\* maxTime=std::max(1.0*total/1.5+10,60.0), truncated to int
\* variant: rounded to the nearest int
MaxTimeForRounded(total) == Max((4 * total + 3) \div 6 + 10, 60)
MaxTimeFor(total) == Max((2 * total) \div 3 + 10, 60)

\* seconds elapsed since startTime
Elapsed == now - startTime

\* revealTimes() of each mode, n being the guess counter after ++guesses
\* variants: guessLimitedGame::revealTimes reading the counter before
\* ++guesses; timeAttackGame::revealTimes answering one reveal at most;
\* pointGame without its override, on the guess-limited cadence
revealTimesNoOverride(m, n, clock, last) ==
    CASE m = "timeAttack"   -> (clock - last) \div revealTime
      [] OTHER              -> IF n % revealGuesses = 0 THEN 1 ELSE 0
revealTimesOneAtMost(m, n, clock, last) ==
    CASE m = "guessLimited" -> IF n % revealGuesses = 0 THEN 1 ELSE 0
      [] m = "timeAttack"   -> IF clock - last >= revealTime THEN 1 ELSE 0
      [] OTHER              -> 0
revealTimesBeforeCount(m, n, clock, last) ==
    CASE m = "guessLimited" -> IF (n - 1) % revealGuesses = 0 THEN 1 ELSE 0
      [] m = "timeAttack"   -> (clock - last) \div revealTime
      [] OTHER              -> 0
revealTimes(m, n, clock, last) ==
    CASE m = "guessLimited" -> IF n % revealGuesses = 0 THEN 1 ELSE 0
      [] m = "timeAttack"   -> (clock - last) \div revealTime
      [] OTHER              -> 0

\* lastRevealTime after revealTimes(): moved in timeAttack only
\* variant: lastRevealTime=now
LastRevealAfterNow(m, n, clock, last) == IF m = "timeAttack" THEN clock ELSE last
LastRevealAfter(m, n, clock, last) ==
    IF m = "timeAttack"
    THEN last + revealTime * revealTimes(m, n, clock, last)
    ELSE last

RECURSIVE revealLoop(_, _, _)
\* while(count--) snippet.reveal(): the grids it may leave
revealLoop(c, sts, n) ==
    IF n = 0 THEN sts
    ELSE revealLoop(c, UNION { revealOutcomes(c, st) : st \in sts }, n - 1)

\* isOver() of each mode
\* variant: guessLimitedGame::isOver comparing with >
isOverPastLimit(m, n, limit, elapsed, tlimit) ==
    CASE m = "guessLimited" -> n > limit
      [] m = "timeAttack"   -> elapsed >= tlimit
      [] OTHER              -> FALSE
isOver(m, n, limit, elapsed, tlimit) ==
    CASE m = "guessLimited" -> n >= limit
      [] m = "timeAttack"   -> elapsed >= tlimit
      [] OTHER              -> FALSE

\* Game::isFinished
isFinished(c, st) == check(c, st)

\* pointGame::calcPoint, as an exact fraction of the doubles it computes
\* variant: points *= rewardFactor without its test
calcPointRewardAlways(c, st, total, n, show, fz) ==
    LET guessed == getGuessedNumber(c, st)
        raw     == pointFactor * guessed * guessed - guessPenalty * n * total
        showNum == IF show THEN 1 ELSE 2
        fzNum   == IF fz THEN 4 ELSE 5
    IN  IF total = 0 THEN [nan |-> TRUE, num |-> 0, den |-> 1]
        ELSE [nan |-> FALSE,
              num |-> raw * showNum * fzNum * rewardFactorNum,
              den |-> total * 2 * 5 * rewardFactorDen]
calcPoint(c, st, total, n, show, fz) ==
    LET guessed == getGuessedNumber(c, st)
        raw     == pointFactor * guessed * guessed - guessPenalty * n * total
        showNum == IF show THEN 1 ELSE 2
        fzNum   == IF fz THEN 4 ELSE 5
        done    == guessed = total
    IN  IF total = 0 THEN [nan |-> TRUE, num |-> 0, den |-> 1]
        ELSE [nan |-> FALSE,
              num |-> raw * showNum * fzNum * (IF done THEN rewardFactorNum ELSE rewardFactorDen),
              den |-> total * 2 * 5 * rewardFactorDen]

\* points after getGameInfo()/saveStatistics(): only pointGame computes them
PointsNow(m, c, st, total, n, show, fz) ==
    IF m = "point" THEN calcPoint(c, st, total, n, show, fz) ELSE points

\* the record saveStatistics(isWin) hands to stats.addGame
HistoryRecord(m, isWin, pts) ==
    [type  |-> m,
     info  |-> IF isWin THEN "Win" ELSE "Lose",
     value |-> IF m = "point" THEN pts ELSE IF isWin THEN 1 ELSE 0]

\* Win(): saveStatistics(true)
Win ==
    /\ points' = PointsNow(mode, code, state', totalNumber, guesses', showPID', fuzzyAllowed')
    /\ gameHistory' = Append(gameHistory, HistoryRecord(mode, TRUE, points'))

\* Lose(): saveStatistics(false); pointGame::Lose returns Win()
\* variants: pointGame without its Lose override; pointGame::Lose saving
\* on its own before it returns Win()
LoseNotOverridden ==
    /\ points' = PointsNow(mode, code, state', totalNumber, guesses', showPID', fuzzyAllowed')
    /\ gameHistory' = Append(gameHistory, HistoryRecord(mode, FALSE, points'))
LoseSavesFirst ==
    /\ points' = PointsNow(mode, code, state', totalNumber, guesses', showPID', fuzzyAllowed')
    /\ gameHistory' = IF mode = "point"
                      THEN gameHistory \o << HistoryRecord(mode, FALSE, points'),
                                             HistoryRecord(mode, TRUE, points') >>
                      ELSE Append(gameHistory, HistoryRecord(mode, FALSE, points'))
Lose ==
    /\ points' = PointsNow(mode, code, state', totalNumber, guesses', showPID', fuzzyAllowed')
    /\ gameHistory' = Append(gameHistory, HistoryRecord(mode, mode = "point", points'))

\* the guess counter after makeGuess got result r from snippet.guess
\* variant: ++guesses before the too-short test
GuessesAfterAlways(n, r) == n + 1
GuessesAfter(n, r) == IF r[1] = -1 THEN n ELSE n + 1

\* the message of an accepted guess
ResultMsg(r) == [kind |-> "matches", matches |-> r[1], fuzzy |-> r[2]]

\* variant of makeGuess: the while(count--) reveal() loop placed before
\* snippet.guess(guess)
makeGuessRevealsFirst(g) ==
    IF ~showPID /\ g = TokenP
    THEN /\ showPID' = TRUE
         /\ msg' = [NoMsg EXCEPT !.kind = "pid"]
         /\ call' = [NoCall EXCEPT !.op = "makeGuess", !.guess = g, !.before = state, !.after = state]
         /\ UNCHANGED << state, guesses, fuzzyAllowed, lastRevealTime, reveals >>
    ELSE IF ~fuzzyAllowed /\ g = TokenF
    THEN /\ fuzzyAllowed' = TRUE
         /\ msg' = [NoMsg EXCEPT !.kind = "fuzzy"]
         /\ call' = [NoCall EXCEPT !.op = "makeGuess", !.guess = g, !.before = state, !.after = state]
         /\ UNCHANGED << state, guesses, showPID, lastRevealTime, reveals >>
    ELSE LET n == IF Len(g) < MIN_LEN THEN guesses ELSE guesses + 1
             k == IF n = guesses THEN 0 ELSE revealTimes(mode, n, now, lastRevealTime)
         IN  \E st \in revealLoop(code, {state}, k) :
             \E r \in {guess(code, st, snippetFuzzy, g)} :
                 /\ guesses' = n
                 /\ msg' = IF r.result[1] = -1 THEN [NoMsg EXCEPT !.kind = "tooshort"]
                           ELSE ResultMsg(r.result)
                 /\ lastRevealTime' = IF n = guesses THEN lastRevealTime
                                      ELSE LastRevealAfter(mode, n, now, lastRevealTime)
                 /\ reveals' = reveals + k
                 /\ state' = r.state
                 /\ call' = [GuessCall(g, state, r) EXCEPT !.op = "makeGuess"]
                 /\ UNCHANGED << showPID, fuzzyAllowed >>

\* variant of makeGuess: the tokens tested without !showPID and !fuzzyAllowed
makeGuessTokensAlways(g) ==
    IF g = TokenP
    THEN /\ showPID' = TRUE
         /\ msg' = [NoMsg EXCEPT !.kind = "pid"]
         /\ call' = [NoCall EXCEPT !.op = "makeGuess", !.guess = g, !.before = state, !.after = state]
         /\ UNCHANGED << state, guesses, fuzzyAllowed, lastRevealTime, reveals >>
    ELSE IF g = TokenF
    THEN /\ fuzzyAllowed' = TRUE
         /\ msg' = [NoMsg EXCEPT !.kind = "fuzzy"]
         /\ call' = [NoCall EXCEPT !.op = "makeGuess", !.guess = g, !.before = state, !.after = state]
         /\ UNCHANGED << state, guesses, showPID, lastRevealTime, reveals >>
    ELSE \E r \in {guess(code, state, snippetFuzzy, g)} :
         LET n == GuessesAfter(guesses, r.result)
             k == IF n = guesses THEN 0 ELSE revealTimes(mode, n, now, lastRevealTime)
         IN  /\ guesses' = n
             /\ msg' = IF r.result[1] = -1 THEN [NoMsg EXCEPT !.kind = "tooshort"]
                       ELSE ResultMsg(r.result)
             /\ lastRevealTime' = IF n = guesses THEN lastRevealTime
                                  ELSE LastRevealAfter(mode, n, now, lastRevealTime)
             /\ reveals' = reveals + k
             /\ state' \in revealLoop(code, {r.state}, k)
             /\ call' = [GuessCall(g, state, r) EXCEPT !.op = "makeGuess"]
             /\ UNCHANGED << showPID, fuzzyAllowed >>

\* variant of makeGuess: "P" and "F" flipping their flag either way
makeGuessTokensFlip(g) ==
    IF g = TokenP
    THEN /\ showPID' = ~showPID
         /\ msg' = [NoMsg EXCEPT !.kind = "pid"]
         /\ call' = [NoCall EXCEPT !.op = "makeGuess", !.guess = g, !.before = state, !.after = state]
         /\ UNCHANGED << state, guesses, fuzzyAllowed, lastRevealTime, reveals >>
    ELSE IF g = TokenF
    THEN /\ fuzzyAllowed' = ~fuzzyAllowed
         /\ msg' = [NoMsg EXCEPT !.kind = "fuzzy"]
         /\ call' = [NoCall EXCEPT !.op = "makeGuess", !.guess = g, !.before = state, !.after = state]
         /\ UNCHANGED << state, guesses, showPID, lastRevealTime, reveals >>
    ELSE \E r \in {guess(code, state, snippetFuzzy, g)} :
         LET n == GuessesAfter(guesses, r.result)
             k == IF n = guesses THEN 0 ELSE revealTimes(mode, n, now, lastRevealTime)
         IN  /\ guesses' = n
             /\ msg' = IF r.result[1] = -1 THEN [NoMsg EXCEPT !.kind = "tooshort"]
                       ELSE ResultMsg(r.result)
             /\ lastRevealTime' = IF n = guesses THEN lastRevealTime
                                  ELSE LastRevealAfter(mode, n, now, lastRevealTime)
             /\ reveals' = reveals + k
             /\ state' \in revealLoop(code, {r.state}, k)
             /\ call' = [GuessCall(g, state, r) EXCEPT !.op = "makeGuess"]
             /\ UNCHANGED << showPID, fuzzyAllowed >>

\* Game::makeGuess(g)
makeGuess(g) ==
    IF ~showPID /\ g = TokenP
    THEN /\ showPID' = TRUE
         /\ msg' = [NoMsg EXCEPT !.kind = "pid"]
         /\ call' = [NoCall EXCEPT !.op = "makeGuess", !.guess = g, !.before = state, !.after = state]
         /\ UNCHANGED << state, guesses, fuzzyAllowed, lastRevealTime, reveals >>
    ELSE IF ~fuzzyAllowed /\ g = TokenF
    THEN /\ fuzzyAllowed' = TRUE
         /\ msg' = [NoMsg EXCEPT !.kind = "fuzzy"]
         /\ call' = [NoCall EXCEPT !.op = "makeGuess", !.guess = g, !.before = state, !.after = state]
         /\ UNCHANGED << state, guesses, showPID, lastRevealTime, reveals >>
    ELSE \E r \in {guess(code, state, snippetFuzzy, g)} :
         LET n == GuessesAfter(guesses, r.result)
             k == IF n = guesses THEN 0 ELSE revealTimes(mode, n, now, lastRevealTime)
         IN  /\ guesses' = n
             /\ msg' = IF r.result[1] = -1 THEN [NoMsg EXCEPT !.kind = "tooshort"]
                       ELSE ResultMsg(r.result)
             /\ lastRevealTime' = IF n = guesses THEN lastRevealTime
                                  ELSE LastRevealAfter(mode, n, now, lastRevealTime)
             /\ reveals' = reveals + k
             /\ state' \in revealLoop(code, {r.state}, k)
             /\ call' = [GuessCall(g, state, r) EXCEPT !.op = "makeGuess"]
             /\ UNCHANGED << showPID, fuzzyAllowed >>

\* ------------------------------------------------------------- the drivers

Init ==
    /\ code = << >>
    /\ state = << >>
    /\ snippetFuzzy = TRUE
    /\ call = NoCall
    /\ repoEmpty \in BOOLEAN
    /\ config = NoGame
    /\ autoCount = 0
    /\ ui \in {"console", "gui"}
    /\ mode = "none"
    /\ pc = "menu"
    /\ guesses = 0
    /\ fuzzyAllowed = TRUE
    /\ showPID = FALSE
    /\ maxGuesses = 0
    /\ maxTime = 0
    /\ totalNumber = 0
    /\ now = 0
    /\ startTime = 0
    /\ lastRevealTime = 0
    /\ reveals = 0
    /\ points = ZeroPoints
    /\ msg = NoMsg
    /\ gameHistory = << >>

\* variant of start(): if(pid.empty()) return false placed after the
\* initialisations, loadSnippet("") finding no file
StartOnChecksLast(m, files) ==
    /\ pc = "menu"
    /\ mode' = m
    /\ fuzzyAllowed' = ConstructedFuzzy(m)
    /\ showPID' = ConstructedShow(m)
    /\ \E raw \in IF repoEmpty THEN { << >> } ELSE files :
         /\ code' = LoadCode(raw)
         /\ state' = LoadState(raw)
         /\ snippetFuzzy' = fuzzyAllowed'
         /\ maxGuesses' = IF m = "guessLimited"
                          THEN MaxGuessesFor(getTotalNumber(code')) ELSE maxGuesses
         /\ maxTime' = IF m = "timeAttack"
                       THEN MaxTimeFor(getTotalNumber(code')) ELSE maxTime
         /\ totalNumber' = IF m = "point" THEN getTotalNumber(code') ELSE totalNumber
         /\ startTime' = IF m = "timeAttack" THEN now ELSE startTime
         /\ lastRevealTime' = IF m = "timeAttack" THEN now ELSE lastRevealTime
         /\ pc' = IF repoEmpty THEN "nosnippets"
                  ELSE IF ui = "console" THEN "poll" ELSE "input"
         /\ points' = IF ui = "gui" /\ ~repoEmpty
                      THEN PointsNow(m, code', state', totalNumber', guesses,
                                     showPID', fuzzyAllowed')
                      ELSE points
    /\ config' = IF m = "point" THEN DefaultPointGame ELSE NoGame
    /\ UNCHANGED << call, repoEmpty, autoCount, ui, guesses, now, reveals, msg, gameHistory >>

\* the menu choice: new <mode>Game(repo,stats,fuzzy,show), then game->start(),
\* files being what the CodeSnippets directory holds
StartOn(m, files) ==
    /\ pc = "menu"
    /\ mode' = m
    /\ fuzzyAllowed' = ConstructedFuzzy(m)
    /\ showPID' = ConstructedShow(m)
    /\ IF repoEmpty
       THEN /\ pc' = "nosnippets"
            /\ UNCHANGED << code, state, snippetFuzzy, maxGuesses, maxTime, totalNumber,
                            startTime, lastRevealTime, points >>
       ELSE \E raw \in files :
            /\ code' = LoadCode(raw)
            /\ state' = LoadState(raw)
            /\ snippetFuzzy' = fuzzyAllowed'
            /\ maxGuesses' = IF m = "guessLimited"
                             THEN MaxGuessesFor(getTotalNumber(code')) ELSE maxGuesses
            /\ maxTime' = IF m = "timeAttack"
                          THEN MaxTimeFor(getTotalNumber(code')) ELSE maxTime
            /\ totalNumber' = IF m = "point" THEN getTotalNumber(code') ELSE totalNumber
            /\ startTime' = IF m = "timeAttack" THEN now ELSE startTime
            /\ lastRevealTime' = IF m = "timeAttack" THEN now ELSE lastRevealTime
            /\ pc' = IF ui = "console" THEN "poll" ELSE "input"
            /\ points' = IF ui = "gui"
                         THEN PointsNow(m, code', state', totalNumber', guesses,
                                        showPID', fuzzyAllowed')
                         ELSE points
    /\ config' = IF m = "point" THEN DefaultPointGame ELSE NoGame
    /\ UNCHANGED << call, repoEmpty, autoCount, ui, guesses, now, reveals, msg, gameHistory >>

StartGame(m) == StartOn(m, RepoFiles)

\* the steady clock advances while the driver waits for the player; only
\* timeAttackGame reads it
Tick(d) ==
    /\ pc = "input"
    /\ mode = "timeAttack"
    /\ now + d <= MaxClock
    /\ now' = now + d
    /\ UNCHANGED << code, state, snippetFuzzy, call, repoEmpty, autoCount, config, ui, mode, pc, guesses,
                    fuzzyAllowed, showPID, maxGuesses, maxTime, totalNumber, startTime,
                    lastRevealTime, reveals, points, msg, gameHistory >>

\* the modes without a guess limit are followed for MaxFreeGuesses accepted guesses
WithinBounds == mode = "guessLimited" \/ guesses < MaxFreeGuesses

\* UI::showGamePage, top of the loop: display, then isOver() and isFinished()
ConsolePoll ==
    /\ ui = "console"
    /\ pc = "poll"
    /\ call' = NoCall
    /\ UNCHANGED << code, state, snippetFuzzy, repoEmpty, autoCount, config, ui, mode, guesses, fuzzyAllowed,
                    showPID, maxGuesses, maxTime, totalNumber, now, startTime,
                    lastRevealTime, reveals, msg >>
    /\ IF isOver(mode, guesses, maxGuesses, Elapsed, maxTime)
       THEN Lose /\ pc' = "ended"
       ELSE IF isFinished(code, state)
       THEN Win /\ pc' = "ended"
       ELSE /\ pc' = "input"
            /\ points' = PointsNow(mode, code, state, totalNumber, guesses, showPID, fuzzyAllowed)
            /\ UNCHANGED gameHistory

\* UI::showGamePage, std::getline: "E" resigns, anything else is a guess
ConsoleInput(g) ==
    /\ ui = "console"
    /\ pc = "input"
    /\ IF g = TokenE
       THEN /\ UNCHANGED << state, guesses, fuzzyAllowed, showPID, lastRevealTime, reveals, msg >>
            /\ call' = [NoCall EXCEPT !.op = "resign"]
            /\ Lose
            /\ pc' = "ended"
       ELSE /\ makeGuess(g)
            /\ pc' = "poll"
            /\ UNCHANGED << points, gameHistory >>
    /\ UNCHANGED << code, snippetFuzzy, repoEmpty, autoCount, config, ui, mode, maxGuesses, maxTime, totalNumber,
                    now, startTime >>

\* GUI::onGuess
GuiGuess(g) ==
    /\ ui = "gui"
    /\ pc = "input"
    /\ g # << >>
    /\ makeGuess(g)
    /\ IF isOver(mode, guesses', maxGuesses, Elapsed, maxTime)
       THEN Lose /\ pc' = "ended"
       ELSE IF isFinished(code, state')
       THEN Win /\ pc' = "ended"
       ELSE /\ pc' = "shown"
            /\ points' = PointsNow(mode, code, state', totalNumber, guesses', showPID',
                                   fuzzyAllowed')
            /\ UNCHANGED gameHistory
    /\ UNCHANGED << code, snippetFuzzy, repoEmpty, autoCount, config, ui, mode, maxGuesses, maxTime, totalNumber,
                    now, startTime >>

\* GUI::onGuess has returned to the event loop; the call's record is dropped
GuiReturn ==
    /\ ui = "gui"
    /\ pc = "shown"
    /\ pc' = "input"
    /\ call' = NoCall
    /\ UNCHANGED << code, state, snippetFuzzy, repoEmpty, autoCount, config, ui, mode, guesses, fuzzyAllowed,
                    showPID, maxGuesses, maxTime, totalNumber, now, startTime,
                    lastRevealTime, reveals, points, msg, gameHistory >>

\* GUI::onGiveUp (the Give Up button, or closing the game window)
GuiGiveUp ==
    /\ ui = "gui"
    /\ pc = "input"
    /\ call' = [NoCall EXCEPT !.op = "resign"]
    /\ UNCHANGED << state, guesses, fuzzyAllowed, showPID, lastRevealTime, reveals, msg >>
    /\ Lose
    /\ pc' = "ended"
    /\ UNCHANGED << code, snippetFuzzy, repoEmpty, autoCount, config, ui, mode, maxGuesses, maxTime, totalNumber,
                    now, startTime >>

\* GUI::onGuess, GUI::onGiveUp once cleanupGame() has run: if(!game) return
GuiNoGame ==
    /\ ui = "gui"
    /\ pc = "ended"
    /\ UNCHANGED vars

\* seconds the clock may jump between two events
TickSteps == {5, 25}

Next ==
    \/ \E m \in Modes : StartGame(m)
    \/ \E d \in TickSteps : Tick(d)
    \/ ConsolePoll
    \/ \E g \in GameInputs : WithinBounds /\ ConsoleInput(g)
    \/ ConsoleInput(TokenE)
    \/ \E g \in GameInputs : WithinBounds /\ GuiGuess(g)
    \/ GuiReturn
    \/ GuiGiveUp
    \/ GuiNoGame

Spec == Init /\ [][Next]_vars

\* ------------------------------------------- sessions of one mode, played out

\* a snippet file of one line of n letters
Line(n) == [i \in 1..n |-> "a"]
LineFile(n) == << Line(n) >>
StartFiles == { LineFile(n) : n \in 0..MaxTotal } \cup { << >> }
LongFile == [i \in 1..LongLines |-> Line(LongLine)]
TabFile == << <<Tab, "b">> >>
PointFiles == {LongFile, TabFile} \cup RepoFiles

\* what the player types in these sessions
Miss == <<"b", "b", "b">>
Hit == <<"a", "a", "a">>
Short == <<"a", "b">>
LimitInputs == {Miss, Hit, Short, TokenP}
TimeInputs == {Miss, Hit, Short, <<"a", "a", Blank>>}
PointInputs == {Miss, Hit, Short, <<"a", "b", Blank>>, <<"b", Blank, Blank>>, TokenP, TokenF}
TimeSteps == {1, 25}

LimitBounds == mode = "guessLimited" /\ getTotalNumber(code) <= MaxPlayedTotal
TimeBounds == mode = "timeAttack" /\ getTotalNumber(code) <= MaxTimedTotal /\ guesses < MaxFreeGuesses
PointBounds == mode = "point" /\ guesses < MaxPointGuesses

\* guess-limited sessions
LimitNext ==
    \/ StartOn("guessLimited", StartFiles)
    \/ ConsolePoll
    \/ \E g \in LimitInputs : LimitBounds /\ ConsoleInput(g)
    \/ ConsoleInput(TokenE)
    \/ \E g \in LimitInputs : LimitBounds /\ GuiGuess(g)
    \/ GuiReturn
    \/ GuiGiveUp
    \/ GuiNoGame

LimitSpec == Init /\ [][LimitNext]_vars

\* time-attack sessions
TimeNext ==
    \/ StartOn("timeAttack", StartFiles)
    \/ \E d \in TimeSteps : Tick(d)
    \/ ConsolePoll
    \/ \E g \in TimeInputs : TimeBounds /\ ConsoleInput(g)
    \/ ConsoleInput(TokenE)
    \/ \E g \in TimeInputs : TimeBounds /\ GuiGuess(g)
    \/ GuiReturn
    \/ GuiGiveUp
    \/ GuiNoGame

TimeSpec == Init /\ [][TimeNext]_vars

\* point sessions
PointNext ==
    \/ StartOn("point", PointFiles)
    \/ ConsolePoll
    \/ \E g \in PointInputs : PointBounds /\ ConsoleInput(g)
    \/ ConsoleInput(TokenE)
    \/ \E g \in PointInputs : PointBounds /\ GuiGuess(g)
    \/ GuiReturn
    \/ GuiGiveUp
    \/ GuiNoGame

PointSpec == Init /\ [][PointNext]_vars

\* sessions of the three modes
SessionNext ==
    \/ StartOn("guessLimited", StartFiles)
    \/ StartOn("timeAttack", StartFiles)
    \/ StartOn("point", PointFiles)
    \/ \E d \in TimeSteps : Tick(d)
    \/ ConsolePoll
    \/ \E g \in LimitInputs : LimitBounds /\ ConsoleInput(g)
    \/ \E g \in TimeInputs : TimeBounds /\ ConsoleInput(g)
    \/ \E g \in PointInputs : PointBounds /\ ConsoleInput(g)
    \/ ConsoleInput(TokenE)
    \/ \E g \in LimitInputs : LimitBounds /\ GuiGuess(g)
    \/ \E g \in TimeInputs : TimeBounds /\ GuiGuess(g)
    \/ \E g \in PointInputs : PointBounds /\ GuiGuess(g)
    \/ GuiReturn
    \/ GuiGiveUp
    \/ GuiNoGame

SessionSpec == Init /\ [][SessionNext]_vars

\* ---------------------------------------------------------------- AutoGuess

guessLength == 3

\* AutoGuess::keywords
keywords ==
    << <<"i", "n", "t">>, <<"f", "o", "r">>, <<"i", "f", "(">>, <<"e", "l", "s">>,
       <<"r", "e", "t">>, <<"u", "r", "n">>, <<"c", "l", "a">>, <<"a", "s", "s">>,
       <<"n", "a", "m">>, <<"e", "s", "p">>, <<"#", "i", "n">>, <<"u", "d", "e">>,
       <<"s", "t", "d">>, <<"s", "i", "z">>, <<"l", "o", "n">>, <<"e", "o", "f">>,
       <<"n", "u", "l">>, <<"p", "t", "r">>, <<"n", "e", "w">>, <<"d", "e", "l">>,
       <<"e", "t", "e">>, <<"w", "h", "i">>, <<"i", "l", "e">>, <<"c", "o", "n">>,
       <<"s", "t", Blank>>, <<"c", "o", "u">>, <<"t", "<", "<">>, <<"c", "i", "n">>,
       <<">", ">", Blank>>, <<"%", "d", Blank>>, <<"s", "c", "a">>, <<"p", "r", "i">>,
       <<"n", "t", "f">>, <<"<", "<", "\"">>, <<"\"", "<", "<">> >>

\* what AutoGuess::random() may return: guessLength characters of
\* alphabet_ (two of its draws are followed)
RandomHints == { <<"a", "a", "a">>, <<"0", "^", "(">> }

\* visited: some window of guessLength characters of the mask is the keyword
Visited(mask, keyword) ==
    \E i \in 1..Len(mask) : \E j \in 0..(Len(mask[i]) - guessLength) :
        substr(mask[i], j, guessLength) = keyword

RECURSIVE AutoGuess(_, _)
\* AutoGuess::guess(mask) called with count = cnt: the strings it may return
\* and the count it leaves
AutoGuess(mask, cnt) ==
    IF cnt = Len(keywords) THEN [hints |-> RandomHints, count |-> cnt]
    ELSE IF Visited(mask, keywords[cnt + 1]) THEN AutoGuess(mask, cnt + 1)
    ELSE [hints |-> {keywords[cnt + 1]}, count |-> cnt + 1]

\* the record of an auto-guess request answered with hint
AutoCall(hint, st, mask) ==
    [NoCall EXCEPT !.op = "auto", !.guess = hint, !.before = st, !.after = st,
                   !.masked = mask]

\* variant of the console's "A" branch: the request counted as a turn
ConsoleAutoTakesTurn ==
    /\ ui = "console"
    /\ pc = "input"
    /\ \E r \in {AutoGuess(getMasked(code, state, "@", "#"), autoCount)} :
       \E hint \in r.hints :
         /\ autoCount' = r.count
         /\ call' = AutoCall(hint, state, getMasked(code, state, "@", "#"))
    /\ msg' = [NoMsg EXCEPT !.kind = "hint"]
    /\ guesses' = guesses + 1
    /\ pc' = "poll"
    /\ UNCHANGED << code, state, snippetFuzzy, repoEmpty, config, ui, mode,
                    fuzzyAllowed, showPID, maxGuesses, maxTime, totalNumber, now, startTime,
                    lastRevealTime, reveals, points, gameHistory >>

\* UI::showGamePage, guess == "A": msg = ag.guess(game->getMasked()); continue
ConsoleAuto ==
    /\ ui = "console"
    /\ pc = "input"
    /\ \E r \in {AutoGuess(getMasked(code, state, "@", "#"), autoCount)} :
       \E hint \in r.hints :
         /\ autoCount' = r.count
         /\ call' = AutoCall(hint, state, getMasked(code, state, "@", "#"))
    /\ msg' = [NoMsg EXCEPT !.kind = "hint"]
    /\ pc' = "poll"
    /\ UNCHANGED << code, state, snippetFuzzy, repoEmpty, config, ui, mode, guesses,
                    fuzzyAllowed, showPID, maxGuesses, maxTime, totalNumber, now, startTime,
                    lastRevealTime, reveals, points, gameHistory >>

\* GUI::onAuto: the suggestion, then updateGameDisplay({suggestion})
GuiAuto ==
    /\ ui = "gui"
    /\ pc = "input"
    /\ \E r \in {AutoGuess(getMasked(code, state, "@", "#"), autoCount)} :
       \E hint \in r.hints :
         /\ autoCount' = r.count
         /\ call' = AutoCall(hint, state, getMasked(code, state, "@", "#"))
    /\ msg' = [NoMsg EXCEPT !.kind = "hint"]
    /\ points' = PointsNow(mode, code, state, totalNumber, guesses, showPID, fuzzyAllowed)
    /\ pc' = "shown"
    /\ UNCHANGED << code, state, snippetFuzzy, repoEmpty, config, ui, mode, guesses,
                    fuzzyAllowed, showPID, maxGuesses, maxTime, totalNumber, now, startTime,
                    lastRevealTime, reveals, gameHistory >>

\* snippets holding keywords, and one holding none
AutoFiles ==
    { << <<"i", "n", "t">> >>,
      << <<"f", "o", "r">>, <<"i", "n", "t">> >>,
      << <<"a", "b">> >> }

\* what the player types besides "A"
AutoInputs == { <<"i", "n", "t">>, <<"f", "o", "r">>, Miss, Short, TokenP }

AutoBounds == guesses < MaxFreeGuesses

\* seconds the clock may jump between two events of these sessions
AutoSteps == {25}

\* sessions in which hints are requested
AutoNext ==
    \/ \E m \in Modes : StartOn(m, AutoFiles)
    \/ \E d \in AutoSteps : Tick(d)
    \/ ConsolePoll
    \/ \E g \in AutoInputs : AutoBounds /\ ConsoleInput(g)
    \/ ConsoleInput(TokenE)
    \/ ConsoleAuto
    \/ \E g \in AutoInputs : AutoBounds /\ GuiGuess(g)
    \/ GuiAuto
    \/ GuiReturn
    \/ GuiGiveUp
    \/ GuiNoGame

AutoSpec == Init /\ [][AutoNext]_vars

\* ------------------------------------------- pointGame constructed directly

\* the penalty, pfactor and rfactor arguments tried: below, at and above each
\* test's limit, the defaults, and not a number
Penalties == { Double(0 - 1, 1), Double(0, 1), Double(1, 2), Double(guessPenalty, 1), NaN }
PointFactors == { Double(0 - 1, 1), Double(0, 1), Double(1, 2), Double(pointFactor, 1), NaN }
RewardFactors ==
    { Double(0 - 1, 1), Double(0, 1), Double(1, 2), Double(1, 1),
      Double(rewardFactorNum, rewardFactorDen), NaN }

\* the record of a pointGame(..., penalty, pfactor, rfactor) call
ConstructCall(penalty, pfactor, rfactor) ==
    [NoCall EXCEPT !.op = "pointGame", !.guess = << penalty, pfactor, rfactor >>]

\* new pointGame(repo,stats,false,false,penalty,pfactor,rfactor): the object,
\* or the AppException thrown out of the constructor
Construct(penalty, pfactor, rfactor) ==
    /\ pc = "menu"
    /\ call.op = "none"
    /\ call' = ConstructCall(penalty, pfactor, rfactor)
    /\ \E made \in {pointGame(penalty, pfactor, rfactor)} :
         IF made.error # ""
         THEN /\ pc' = "threw"
              /\ msg' = [NoMsg EXCEPT !.kind = made.error]
              /\ UNCHANGED << config, mode, fuzzyAllowed, showPID, guesses, points >>
         ELSE /\ pc' = "constructed"
              /\ config' = made
              /\ mode' = "point"
              /\ fuzzyAllowed' = FALSE
              /\ showPID' = FALSE
              /\ guesses' = 0
              /\ points' = ZeroPoints
              /\ UNCHANGED msg
    /\ UNCHANGED << code, state, snippetFuzzy, repoEmpty, autoCount, ui, maxGuesses, maxTime, totalNumber,
                    now, startTime, lastRevealTime, reveals, gameHistory >>

\* the constructor has returned or thrown; the record of the call is dropped
ConstructReturn ==
    /\ pc \in {"constructed", "threw"}
    /\ call.op = "pointGame"
    /\ call' = NoCall
    /\ UNCHANGED << code, state, snippetFuzzy, repoEmpty, autoCount, config, ui, mode, pc, guesses,
                    fuzzyAllowed, showPID, maxGuesses, maxTime, totalNumber, now, startTime,
                    lastRevealTime, reveals, points, msg, gameHistory >>

ConstructNext ==
    \/ \E penalty \in Penalties : \E pfactor \in PointFactors : \E rfactor \in RewardFactors :
          Construct(penalty, pfactor, rfactor)
    \/ ConstructReturn

ConstructSpec == Init /\ [][ConstructNext]_vars

\* ------------------------------------------------- vocabulary of the claims

\* the state of position pos = <<line, 0-based column>> in grid st
At(st, pos) == st[pos[1]][pos[2] + 1]

\* every <<line, offset>> at which a window as long as g fits in its line
Windows(c, g) == UNION { { <<i, j>> : j \in 0..(Len(c[i]) - Len(g)) } : i \in 1..Len(c) }

\* the offsets (1-based, in the guess) at which window w and guess g differ
Mismatches(c, w, g) == { k \in 1..Len(g) : c[w[1]][w[2] + k] # g[k] }

NonBlanks(g) == { k \in 1..Len(g) : g[k] # Blank }

\* windows whose text is the guess
ExactWindows(c, g) == { w \in Windows(c, g) : Mismatches(c, w, g) = {} }

\* windows that differ from the guess in exactly one character, the guess
\* having two or more non-blank characters
NearWindows(c, g) ==
    { w \in Windows(c, g) :
        /\ Mismatches(c, w, g) # {}
        /\ \A k1, k2 \in Mismatches(c, w, g) : k1 = k2
        /\ \E k1, k2 \in NonBlanks(g) : k1 # k2 }

\* the positions inside the windows of W, each as long as g
Covered(W, g) == { <<w[1], w[2] + k>> : w \in W, k \in 0..(Len(g) - 1) }

AllVisibleExact(c, st) ==
    \A i \in 1..Len(c) : \A p \in 1..Len(c[i]) : c[i][p] # Blank => st[i][p] = EXACT_MATCH

Accepted(g) == Len(g) >= 3

GuessReturned == call.op = "guess"

\* ------------------------------------------------------------------ claims

\* C1: over guess() and reveal() calls a position's state only moves
\* Unguessed -> Fuzzy, Unguessed -> Exact or Fuzzy -> Exact: never away from
\* ExactMatched, never from FuzzyMatched back to Unguessed.
C1_MonotonicReveal ==
    [][\A pos \in Positions(code) :
          \/ At(state', pos) = At(state, pos)
          \/ << At(state, pos), At(state', pos) >> \in
                { <<UNGUESSED, FUZZY_MATCH>>, <<UNGUESSED, EXACT_MATCH>>,
                  <<FUZZY_MATCH, EXACT_MATCH>> }]_vars

\* a guess that fuzzy-matched a window holding ExactMatched and FuzzyMatched
\* positions, leaving both as they were
C1_Witness ==
    /\ GuessReturned
    /\ \E w \in call.fuzzy :
         /\ \E pos \in Covered({w}, call.guess) :
              At(call.before, pos) = EXACT_MATCH /\ At(state, pos) = EXACT_MATCH
         /\ \E pos \in Covered({w}, call.guess) :
              At(call.before, pos) = FUZZY_MATCH /\ At(state, pos) = FUZZY_MATCH

\* C2: once makeGuess("F") has switched fuzzy matching on in a session that
\* started with it off, every accepted guess is resolved with fuzzy matching:
\* its fuzzy count is the number of windows one character away from the
\* guess, and the Unguessed positions of those windows leave Unguessed.
C2_FuzzyToggleTakesEffect ==
    (/\ pc # "menu"
     /\ ~ConstructedFuzzy(mode)
     /\ fuzzyAllowed
     /\ call.op = "makeGuess"
     /\ msg.kind = "matches")
    => /\ call.result[2] = Cardinality(NearWindows(code, call.guess))
       /\ \A pos \in Covered(NearWindows(code, call.guess), call.guess) :
            At(call.after, pos) # UNGUESSED

\* C3: a guess shorter than 3 characters returns (-1,-1) and leaves the
\* state of every position as it was.
C3_TooShortIsNoOp ==
    (GuessReturned /\ Len(call.guess) < 3)
    => /\ call.result = <<-1, -1>>
       /\ state = call.before

\* a two-character guess that is text of the snippet, made on a grid that
\* earlier guesses have marked
C3_Witness ==
    /\ GuessReturned
    /\ Len(call.guess) = 2
    /\ ExactWindows(code, call.guess) # {}
    /\ \E pos \in Positions(code) : At(call.before, pos) = FUZZY_MATCH
    /\ \E pos \in Positions(code) : At(call.before, pos) = EXACT_MATCH

\* the guess makeGuess(g) hands to the engine is rejected as too short
RejectedTooShort(g) ==
    /\ Len(g) < 3
    /\ ~(~showPID /\ g = TokenP)
    /\ ~(~fuzzyAllowed /\ g = TokenF)

\* C4: a makeGuess() whose guess is rejected as too short answers the
\* "at least 3 chars" message and changes neither the guess counter, the grid,
\* the number of assist reveals nor the last-assist timestamp.
C4_TooShortTakesNoTurn ==
    [][(call.op = "none" /\ call'.op = "makeGuess" /\ RejectedTooShort(call'.guess))
       => /\ msg'.kind = "tooshort"
          /\ guesses' = guesses
          /\ reveals' = reveals
          /\ state' = state
          /\ lastRevealTime' = lastRevealTime]_vars

\* a too-short guess in time-attack made when two assist intervals had elapsed
C4_Witness ==
    /\ mode = "timeAttack"
    /\ call.op = "makeGuess"
    /\ Len(call.guess) = 2
    /\ msg.kind = "tooshort"
    /\ now - lastRevealTime >= 2 * revealTime
    /\ guesses = 1

\* C5: the exact count of an accepted guess is the number of windows whose
\* text is the guess, overlapping ones included, and every position of those
\* windows is ExactMatched afterwards.
C5_ExactResolution ==
    (GuessReturned /\ Accepted(call.guess))
    => /\ call.result[1] = Cardinality(ExactWindows(code, call.guess))
       /\ \A pos \in Covered(ExactWindows(code, call.guess), call.guess) :
            At(state, pos) = EXACT_MATCH

\* two overlapping exact windows in one line, over positions that were
\* FuzzyMatched before the guess
C5_Witness ==
    /\ GuessReturned
    /\ call.result[1] >= 2
    /\ \E w1, w2 \in ExactWindows(code, call.guess) :
         /\ w1[1] = w2[1]
         /\ w1[2] < w2[2]
         /\ w2[2] < w1[2] + Len(call.guess)
         /\ \E pos \in Covered({w1}, call.guess) : At(call.before, pos) = FUZZY_MATCH

\* C6: with fuzzy matching allowed, the fuzzy count of an accepted guess is
\* the number of windows that are not exact, differ from the guess in at most
\* one aligned character while the guess has at least 2 non-blank characters;
\* a position becomes FuzzyMatched only from Unguessed and only inside such a
\* window, and Unguessed positions of such windows do not stay Unguessed.
C6_FuzzyRule ==
    (GuessReturned /\ Accepted(call.guess) /\ snippetFuzzy)
    => LET near == NearWindows(code, call.guess)
       IN  /\ call.result[2] = Cardinality(near)
           /\ (Cardinality(NonBlanks(call.guess)) < 2 => call.result[2] = 0)
           /\ \A pos \in Positions(code) :
                (At(state, pos) = FUZZY_MATCH /\ At(call.before, pos) # FUZZY_MATCH)
                => (At(call.before, pos) = UNGUESSED /\ pos \in Covered(near, call.guess))
           /\ \A pos \in Covered(near, call.guess) :
                At(call.before, pos) = UNGUESSED
                => \/ At(state, pos) = FUZZY_MATCH
                   \/ pos \in Covered(ExactWindows(code, call.guess), call.guess)
           /\ \A pos \in Covered(near, call.guess) :
                At(call.before, pos) = EXACT_MATCH => At(state, pos) = EXACT_MATCH

\* a fuzzy window (guess "aab"-like: one character off) that held an
\* ExactMatched position, which stayed, and an Unguessed one, which became
\* FuzzyMatched
C6_Witness ==
    /\ GuessReturned
    /\ snippetFuzzy
    /\ call.result[2] >= 1
    /\ \E w \in NearWindows(code, call.guess) :
         /\ \E pos \in Covered({w}, call.guess) :
              At(call.before, pos) = EXACT_MATCH /\ At(state, pos) = EXACT_MATCH
         /\ \E pos \in Covered({w}, call.guess) :
              At(call.before, pos) = UNGUESSED /\ At(state, pos) = FUZZY_MATCH

\* C7: in one guess() no window is counted both as exact and as fuzzy, so
\* the two counts together never exceed the number of windows scanned.
C7_ExactPrecedence ==
    (GuessReturned /\ Accepted(call.guess))
    => /\ call.exact \cap call.fuzzy = {}
       /\ call.result[1] = Cardinality(call.exact)
       /\ (snippetFuzzy => call.result[2] = Cardinality(call.fuzzy))
       /\ call.scanned = Windows(code, call.guess)
       /\ call.result[1] + (IF snippetFuzzy THEN call.result[2] ELSE 0)
            <= Cardinality(Windows(code, call.guess))

\* a guess with two non-blank characters that matched one window exactly
\* and another one fuzzily
C7_Witness ==
    /\ GuessReturned
    /\ snippetFuzzy
    /\ Cardinality(NonBlanks(call.guess)) >= 2
    /\ call.result[1] >= 1
    /\ call.result[2] >= 1

\* C8: while the engine's fuzzy matching is off, an accepted guess returns
\* fuzzy count -1 and no position is ever FuzzyMatched.
C8_FuzzyDisabled ==
    ~snippetFuzzy
    => /\ \A pos \in Positions(code) : At(state, pos) # FUZZY_MATCH
       /\ (GuessReturned /\ Accepted(call.guess)) => call.result[2] = -1

\* with fuzzy matching off, a guess one character away from a window
C8_Witness ==
    /\ ~snippetFuzzy
    /\ GuessReturned
    /\ Accepted(call.guess)
    /\ NearWindows(code, call.guess) # {}
    /\ call.result = <<0, -1>>

\* C9: once check() returns true it returns true after any further guess()
\* or reveal().
C9_IdempotentCompletion ==
    [][isFinished(code, state) => isFinished(code', state')]_vars

\* a guess made on a complete grid that is one character away from a window
C9_Witness ==
    /\ GuessReturned
    /\ snippetFuzzy
    /\ getTotalNumber(code) > 0
    /\ isFinished(code, call.before)
    /\ call.result[2] >= 1
    /\ isFinished(code, state)

\* C10: in every game variant isFinished() is true iff every non-blank
\* position is ExactMatched, iff getGuessedNumber() = getTotalNumber().
C10_CompletionCheck ==
    /\ isFinished(code, state) <=> AllVisibleExact(code, state)
    /\ AllVisibleExact(code, state) <=> getGuessedNumber(code, state) = getTotalNumber(code)

\* a point session on a two-line snippet ended on completion
C10_Witness ==
    /\ mode = "point"
    /\ pc = "ended"
    /\ Len(code) = 2
    /\ getTotalNumber(code) = 2
    /\ isFinished(code, state)
    /\ gameHistory # << >>

\* ---------------------------------------------------------------- C11

\* how the session in hand ended, read off the driver's last step
Ended == pc = "ended"
Resigned == Ended /\ call.op = "resign"
TimedOut == Ended /\ ~Resigned /\ mode = "timeAttack" /\ Elapsed >= maxTime
Exhausted == Ended /\ ~Resigned /\ mode = "guessLimited" /\ guesses >= maxGuesses
Completed == Ended /\ ~Resigned /\ ~TimedOut /\ ~Exhausted

\* C11: a session driven to an end (completion, guess exhaustion, timeout
\* or resign, in any of the three modes and under either driver) has added
\* exactly one History Record, and a session still in progress has added none
C11_OneHistoryRecord ==
    /\ Ended => Len(gameHistory) = 1
    /\ ~Ended => gameHistory = << >>

\* a point session resigned: pointGame::Lose has run through Win()
C11_Witness ==
    /\ Resigned
    /\ mode = "point"
    /\ guesses > 0
    /\ Len(gameHistory) = 1

\* ---------------------------------------------------------------- C12

\* the outcome the session's History Record carries
Outcome == gameHistory[Len(gameHistory)].info

\* C12: a session ended by resign, timeout or guess exhaustion is recorded
\* Lost, and a session ended with its grid complete at the driver's poll is
\* recorded Won, also when the completing guess is the one that reaches the
\* guess limit or comes after the time limit
C12_WinLostRouting ==
    Ended =>
        /\ Resigned => Outcome = "Lose"
        /\ (~Resigned /\ isFinished(code, state)) => Outcome = "Win"
        /\ (~Resigned /\ ~isFinished(code, state)) => Outcome = "Lose"

\* ---------------------------------------------------------------- C13

\* start() has succeeded: a session is in hand, or has ended
Started == pc \in {"poll", "input", "shown", "ended"}

\* isOver() as the driver would get it now
OverNow == isOver(mode, guesses, maxGuesses, Elapsed, maxTime)

\* C13: in a guess-limited session maxGuesses is max(total div 3 + 5, 30)
\* for total guessable characters (30 for total = 60), isOver() is true
\* exactly when the guess counter has reached maxGuesses, the player is asked
\* for a guess only below the limit, and a session that ends by exhaustion
\* ends with the counter at maxGuesses exactly
C13_GuessLimit ==
    (Started /\ mode = "guessLimited") =>
        LET total == getTotalNumber(code)
            third == total \div 3 + 5
        IN  /\ maxGuesses = (IF third >= 30 THEN third ELSE 30)
            /\ total = 60 => maxGuesses = 30
            /\ OverNow <=> guesses >= maxGuesses
            /\ maxGuesses = 30 => /\ guesses = 29 => ~OverNow
                                  /\ guesses = 30 => OverNow
            /\ pc = "input" => guesses < maxGuesses
            /\ Exhausted => guesses = maxGuesses

\* a session lost at its 30th accepted guess with the grid still incomplete
C13_Witness ==
    /\ Exhausted
    /\ maxGuesses = 30
    /\ guesses = 30
    /\ ~isFinished(code, state)
    /\ Outcome = "Lose"

\* ---------------------------------------------------------------- C14

\* makeGuess has just answered: a guess taken as a turn, or anything else
\* (a too-short guess, a control token)
TurnTaken == call.op = "makeGuess" /\ msg.kind = "matches"
NoTurnTaken == call.op = "makeGuess" /\ msg.kind # "matches"

\* C14: in a guess-limited session reveal() has been called guesses div 5
\* times; an accepted guess is followed by one reveal() exactly when its
\* ordinal is a multiple of 5, and a too-short guess or a control token is
\* followed by none
C14_AssistCadence ==
    (Started /\ mode = "guessLimited") =>
        /\ reveals = guesses \div 5
        /\ TurnTaken => IF guesses % 5 = 0
                        THEN state \in revealOutcomes(code, call.after)
                        ELSE state = call.after
        /\ NoTurnTaken => state = call.before

\* the 10th accepted guess, whose assist reveal opened a position
C14_Witness ==
    /\ mode = "guessLimited"
    /\ TurnTaken
    /\ guesses = 10
    /\ reveals = 2
    /\ state # call.after

\* ---------------------------------------------------------------- C15

\* the step is a makeGuess call that took the guess as a turn
AcceptedStep == call.op = "none" /\ call'.op = "makeGuess" /\ msg'.kind = "matches"

\* whole seconds since the last-assist timestamp
SinceLastReveal == now - lastRevealTime

IsOverChecked ==
    \/ ui = "console" /\ pc = "poll" /\ pc' # "poll"
    \/ ui = "gui" /\ call.op = "none" /\ call'.op = "makeGuess"

C17_NoRevealLost ==
    (mode = "timeAttack" /\ TurnTaken) =>
        /\ reveals = Elapsed \div 10
        /\ lastRevealTime = startTime + 10 * (Elapsed \div 10)

\* two accepted guesses, 1 and 26 seconds after the start
C17_Witness ==
    /\ mode = "timeAttack"
    /\ TurnTaken
    /\ guesses = 2
    /\ Elapsed = 26
    /\ reveals = 2
    /\ lastRevealTime = startTime + 20

\* ---------------------------------------------------------------- C18

\* C18: in a time-attack session maxTime is max(floor(2*total/3) + 10, 60)
\* for total guessable characters, and isOver() is true exactly when the
\* whole seconds elapsed since the start have reached maxTime, whatever the
\* guess counter and the grid
C18_TimeLimit ==
    (Started /\ mode = "timeAttack") =>
        LET total == getTotalNumber(code)
            scaled == (2 * total) \div 3 + 10
        IN  /\ maxTime = (IF scaled >= 60 THEN scaled ELSE 60)
            /\ OverNow <=> Elapsed >= maxTime

\* the console session of a player who typed nothing acceptable: lost at
\* the limit with the counter at 0
C18_Witness ==
    /\ TimedOut
    /\ ui = "console"
    /\ Elapsed = maxTime
    /\ guesses = 0
    /\ ~isFinished(code, state)
    /\ Outcome = "Lose"

\* ---------------------------------------------------------------- C19

\* C19: in a point session isOver() is false in every state and reveal() is
\* never called: what makeGuess leaves of the grid is what the guess itself
\* left, and the session ends only by resign or with the grid complete
C19_PointOpenEnded ==
    (Started /\ mode = "point") =>
        /\ ~OverNow
        /\ reveals = 0
        /\ call.op = "makeGuess" => state = call.after
        /\ Ended => Resigned \/ isFinished(code, state)

\* ten accepted guesses into a point session, part of the grid open
C19_Witness ==
    /\ mode = "point"
    /\ pc = "input"
    /\ guesses >= 2 * revealGuesses
    /\ getGuessedNumber(code, state) > 0
    /\ ~isFinished(code, state)
    /\ reveals = 0

\* ---------------------------------------------------------------- C20

\* the points are those of the state in hand: always but between makeGuess
\* and the next display of the console loop
PointsShown == Started /\ pc # "poll"

\* C20: the points of a point session are
\* pointFactor*guessed^2/total - guessPenalty*guesses, times 1/2 iff the
\* identifier is shown, times 4/5 iff fuzzy matching is enabled, times
\* rewardFactor iff guessed = total (over the common denominator 20*total;
\* 0.0/0 for total = 0); total = 100, guessed = 100, guesses = 10 with both
\* toggles off gives 73500
C20_PointFormula ==
    (PointsShown /\ mode = "point") =>
        LET g == getGuessedNumber(code, state)
            T == totalNumber
            timesT == pointFactor * g * g - guessPenalty * guesses * T
            halves == IF showPID THEN 1 ELSE 2
            fifths == IF fuzzyAllowed THEN 4 ELSE 5
            reward == IF g = T THEN rewardFactorNum ELSE rewardFactorDen
        IN  /\ T = getTotalNumber(code)
            /\ points.nan <=> T = 0
            /\ T # 0 => /\ points.den = T * 2 * 5 * rewardFactorDen
                        /\ points.num = timesT * halves * fifths * reward
            /\ (T = 100 /\ g = 100 /\ guesses = 10 /\ ~showPID /\ ~fuzzyAllowed)
                  => points.num = 73500 * points.den

\* the session of the example at its end: 100 of 100 characters in 10
\* guesses, both toggles off, recorded with 73500 points
C20_Witness ==
    /\ Ended
    /\ mode = "point"
    /\ totalNumber = 100
    /\ getGuessedNumber(code, state) = 100
    /\ guesses = 10
    /\ ~showPID
    /\ ~fuzzyAllowed
    /\ points.num = 73500 * points.den
    /\ gameHistory[1].value = points

\* ---------------------------------------------------------------- C21

\* C21: however a point session ends (grid complete or resign, score
\* positive or negative), its History Record is labelled "Win" and carries
\* the score calcPoint gives for the state the session ended in
C21_PointNeverLoses ==
    (Ended /\ mode = "point") =>
        /\ Len(gameHistory) = 1
        /\ Outcome = "Win"
        /\ gameHistory[1].type = "point"
        /\ gameHistory[1].value
             = calcPoint(code, state, totalNumber, guesses, showPID, fuzzyAllowed)

\* a point session resigned with a negative score
C21_Witness ==
    /\ Resigned
    /\ mode = "point"
    /\ ~gameHistory[1].value.nan
    /\ gameHistory[1].value.num < 0
    /\ Outcome = "Win"

\* C22: a makeGuess() of a guess of 3 or more characters adds exactly 1 to
\* the guess counter, also when nothing matches; the guess is resolved
\* against the grid first, then the counter is incremented, then the
\* variant's assist reveals (counted from the incremented counter) are
\* applied, so the reported counts are those of the grid before the reveals
C22_TurnCycle ==
    [][(call.op = "none" /\ call'.op = "makeGuess" /\ Len(call'.guess) >= MIN_LEN) =>
        \A r \in {guess(code, state, snippetFuzzy, call'.guess)} :
            /\ guesses' = guesses + 1
            /\ msg' = [kind |-> "matches", matches |-> r.result[1], fuzzy |-> r.result[2]]
            /\ call'.after = r.state
            /\ reveals' = reveals + revealTimes(mode, guesses + 1, now, lastRevealTime)
            /\ state' \in revealLoop(code, {r.state},
                                     revealTimes(mode, guesses + 1, now, lastRevealTime))]_vars

\* an accepted guess that matched nothing, counted as a turn and followed by
\* an assist reveal
C22_Witness ==
    /\ TurnTaken
    /\ Len(call.guess) >= MIN_LEN
    /\ msg.matches = 0
    /\ call.after = call.before
    /\ state # call.after
    /\ guesses > 0

\* the positions whose grid entry differs between grids a and b
Changed(a, b) == { pos \in Positions(code) : a[pos[1]][pos[2] + 1] # b[pos[1]][pos[2] + 1] }

\* C23: reveal() on a grid with a non-blank position that is not
\* EXACT_MATCH sets exactly one such position to EXACT_MATCH, leaves every
\* other position as it was and raises getGuessedNumber() by 1; on a grid
\* without such a position it changes nothing
C23_RevealOne ==
    call.op = "reveal" =>
        IF \E pos \in Positions(code) :
               code[pos[1]][pos[2] + 1] # Blank /\ call.before[pos[1]][pos[2] + 1] # EXACT_MATCH
        THEN /\ Cardinality(Changed(call.before, state)) = 1
             /\ \A pos \in Changed(call.before, state) :
                    /\ code[pos[1]][pos[2] + 1] # Blank
                    /\ state[pos[1]][pos[2] + 1] = EXACT_MATCH
             /\ getGuessedNumber(code, state) = getGuessedNumber(code, call.before) + 1
        ELSE state = call.before

\* a reveal() that turned a FUZZY_MATCH position into EXACT_MATCH while
\* another candidate stayed as it was
C23_Witness ==
    /\ call.op = "reveal"
    /\ \E pos \in Changed(call.before, state) : call.before[pos[1]][pos[2] + 1] = FUZZY_MATCH
    /\ \E pos \in Positions(code) :
           code[pos[1]][pos[2] + 1] # Blank /\ state[pos[1]][pos[2] + 1] # EXACT_MATCH

\* C24: getMasked(placeholder, fuzzyPlaceholder) returns one line per line
\* of the code, of the same length, holding at every position the blank if
\* the character is blank, the character itself if the state is
\* EXACT_MATCH, fuzzyPlaceholder if FUZZY_MATCH and placeholder if UNGUESSED,
\* so that a non-blank position that is not EXACT_MATCH shows a placeholder
\* whatever its character is; the call changes neither code nor grid
C24_MaskedView ==
    [][call'.op = "getMasked" =>
        /\ code' = code /\ state' = state
        /\ Len(call'.masked) = Len(code)
        /\ \A i \in 1..Len(code) :
              /\ Len(call'.masked[i]) = Len(code[i])
              /\ \A j \in 1..Len(code[i]) :
                    call'.masked[i][j] =
                        CASE code[i][j] = Blank         -> Blank
                          [] state[i][j] = EXACT_MATCH  -> code[i][j]
                          [] state[i][j] = FUZZY_MATCH  -> call'.guess[2]
                          [] state[i][j] = UNGUESSED    -> call'.guess[1]]_vars

\* a default masked view showing a blank, a revealed character, a fuzzy
\* placeholder and a placeholder at once
C24_Witness ==
    /\ call.op = "getMasked"
    /\ call.guess = <<"@", "#">>
    /\ \E i \in 1..Len(code) :
          /\ \E j \in 1..Len(code[i]) : code[i][j] = Blank /\ state[i][j] # EXACT_MATCH
          /\ \E j \in 1..Len(code[i]) : call.masked[i][j] \in {"a", "b"}
          /\ \E j \in 1..Len(code[i]) : call.masked[i][j] = "#"
          /\ \E j \in 1..Len(code[i]) : call.masked[i][j] = "@"

\* C25: start() on an empty repository returns false and changes nothing:
\* no snippet is loaded, no guess limit, time limit, total or timestamp is
\* set, the guess counter stays 0 and no History Record is written; no
\* session is ever played on an empty repository
C25_EmptyRepoStartFails ==
    /\ repoEmpty => pc \in {"menu", "nosnippets"}
    /\ pc = "nosnippets" =>
         /\ repoEmpty
         /\ code = << >> /\ state = << >>
         /\ maxGuesses = 0 /\ maxTime = 0 /\ totalNumber = 0
         /\ startTime = 0 /\ lastRevealTime = 0
         /\ guesses = 0 /\ reveals = 0
         /\ points = ZeroPoints
         /\ gameHistory = << >>

\* a guess-limited game whose start() failed on the empty repository
C25_Witness ==
    /\ pc = "nosnippets"
    /\ repoEmpty
    /\ mode = "guessLimited"

\* C26: a guess() of 3 or more characters, all of them blank, matches
\* nowhere in any buffer: its exact count is 0, it counts no fuzzy match and
\* it marks no position
C26_AllBlankNeverMatches ==
    (/\ call.op = "guess"
     /\ Len(call.guess) >= MIN_LEN
     /\ NonBlanks(call.guess) = {}) =>
        /\ call.result[1] = 0
        /\ call.result[2] \in {0, -1}
        /\ call.exact = {} /\ call.fuzzy = {}
        /\ call.after = call.before

\* x > 0 and x >= 1.0 on doubles
Positive(x) == ~x.nan /\ x.num > 0
AtLeastOne(x) == ~x.nan /\ x.num >= x.den

\* C27: constructing a point game with guessPenalty <= 0, pointFactor <= 0
\* or rewardFactor < 1.0 throws a configuration error and leaves no game
\* object, no value being clamped; with guessPenalty > 0, pointFactor > 0
\* and rewardFactor >= 1.0 (1.0 included) the game is constructed and holds
\* the three values as given
C27_ConstructorValidation ==
    call.op = "pointGame" =>
        /\ (\/ ~Positive(call.guess[1]) /\ ~call.guess[1].nan
            \/ ~Positive(call.guess[2]) /\ ~call.guess[2].nan
            \/ ~AtLeastOne(call.guess[3]) /\ ~call.guess[3].nan) =>
                /\ pc = "threw"
                /\ config = NoGame
                /\ msg.kind \in {"Penalty must be positive", "Point factor must be positive",
                                 "Reward factor must be not less than 1.0"}
        /\ (Positive(call.guess[1]) /\ Positive(call.guess[2]) /\ AtLeastOne(call.guess[3])) =>
                /\ pc = "constructed"
                /\ config = [error |-> "", guessPenalty |-> call.guess[1],
                             pointFactor |-> call.guess[2], rewardFactor |-> call.guess[3]]

\* a point game constructed with rewardFactor 1.0 and a penalty below 1
C27_Witness ==
    /\ call.op = "pointGame"
    /\ pc = "constructed"
    /\ call.guess[1] = Double(1, 2)
    /\ call.guess[3] = Double(1, 1)
    /\ config.rewardFactor = Double(1, 1)

\* a makeGuess(g) step
MakeGuessStep(g) == call.op = "none" /\ call'.op = "makeGuess" /\ call'.guess = g

\* what no token and no too-short guess touches
TurnUntouched ==
    /\ guesses' = guesses
    /\ state' = state
    /\ lastRevealTime' = lastRevealTime
    /\ reveals' = reveals

\* C28: makeGuess("P") with showPID off, and makeGuess("F") with the
\* game's fuzzyAllowed off, only set that flag: guess counter, grid, number
\* of reveals and last-assist timestamp stay as they are and the other flag
\* too; with the flag already on the same input goes to guess(), is
\* rejected as too short and changes nothing
C28_ControlTokens ==
    [][/\ MakeGuessStep(TokenP) =>
            /\ TurnUntouched
            /\ fuzzyAllowed' = fuzzyAllowed
            /\ showPID' = TRUE
            /\ msg'.kind = IF showPID THEN "tooshort" ELSE "pid"
       /\ MakeGuessStep(TokenF) =>
            /\ TurnUntouched
            /\ showPID' = showPID
            /\ fuzzyAllowed' = TRUE
            /\ msg'.kind = IF fuzzyAllowed THEN "tooshort" ELSE "fuzzy"]_vars

\* "P" typed a second time in a point session, after a turn was taken:
\* rejected as too short
C28_Witness ==
    /\ call.op = "makeGuess"
    /\ call.guess = TokenP
    /\ mode = "point"
    /\ showPID
    /\ msg.kind = "tooshort"
    /\ guesses > 0

\* C29: in a guess() of 3 or more characters every window examined lies in
\* a line of the buffer, starts at an offset >= 0 and ends within the padded
\* line, whose state row is as long as the line; a line shorter than the
\* guess, an empty line padded to 2 blanks included, has no window examined
C29_WindowBounds ==
    (GuessReturned /\ Len(call.guess) >= MIN_LEN) =>
        /\ \A w \in call.scanned :
              /\ w[1] \in 1..Len(code)
              /\ 0 <= w[2]
              /\ w[2] + Len(call.guess) <= Len(code[w[1]])
              /\ Len(call.before[w[1]]) = Len(code[w[1]])
        /\ \A i \in 1..Len(code) :
              /\ Len(code[i]) >= MIN_LEN - 1
              /\ Len(code[i]) < Len(call.guess) => \A w \in call.scanned : w[1] # i

\* a guess longer than the padded empty line of a two-line buffer, examined
\* up to the last offset of the other line
C29_Witness ==
    /\ GuessReturned
    /\ Len(call.guess) > MIN_LEN
    /\ \E i \in 1..Len(code) : Len(code[i]) = MIN_LEN - 1
    /\ \E w \in call.scanned : w[2] > 0 /\ w[2] + Len(call.guess) = Len(code[w[1]])

\* the texts of the in-bounds windows of MIN_LEN characters
WindowTexts(c) ==
    UNION { { substr(c[i], j, MIN_LEN) : j \in 0..(Len(c[i]) - MIN_LEN) } : i \in 1..Len(c) }

RECURSIVE GuessAll(_, _, _, _)
\* the grid left by guessing every text of the set, one guess() after another
GuessAll(c, st, fz, texts) ==
    IF texts = {} THEN st
    ELSE CHOOSE end \in { GuessAll(c, next, fz, texts \ {g}) :
                             g \in {CHOOSE t \in texts : TRUE},
                             next \in {guess(c, st, fz, CHOOSE t \in texts : TRUE).state} } : TRUE

\* C30: in a buffer as loaded (tabs expanded, 2 blanks appended to each
\* line) every non-blank position lies in an in-bounds window of MIN_LEN
\* characters, whose text is a guess that exact-matches it; so in every
\* state of a point session, which is never over by itself, guessing the
\* texts of these windows one after another makes isFinished() true
C30_EveryCharGuessable ==
    (Started /\ mode = "point") =>
        /\ \A pos \in Positions(code) :
              IsVisible(code, pos) =>
                  \E j \in Max(0, pos[2] - MIN_LEN + 1)..pos[2] :
                      /\ j + MIN_LEN <= Len(code[pos[1]])
                      /\ IsExactWindow(code[pos[1]], j, substr(code[pos[1]], j, MIN_LEN))
        /\ ~OverNow
        /\ isFinished(code, GuessAll(code, state, snippetFuzzy, WindowTexts(code)))

\* a point session on a tab-indented line, completed by a guess of MIN_LEN
\* characters that ends in the padding
C30_Witness ==
    /\ mode = "point"
    /\ call.op = "makeGuess"
    /\ Len(call.guess) = MIN_LEN
    /\ \E i \in 1..Len(code) : Len(code[i]) > MIN_LEN /\ code[i][1] = Blank
    /\ ~isFinished(code, call.before)
    /\ isFinished(code, state)

\* grid st with the entry of every blank position of c replaced by v
BlanksSetTo(c, st, v) ==
    [i \in 1..Len(c) |-> [j \in 1..Len(c[i]) |-> IF c[i][j] = Blank THEN v ELSE st[i][j]]]

\* C31: whatever a guess has written on blank and padding positions,
\* getTotalNumber(), getGuessedNumber(), check(), the candidates of
\* reveal() and the masked view are those of the grid with any other value
\* on the blank positions: they depend on the non-blank positions only
\* (stated of the grid in hand between two calls)
C31_BlanksSatisfied ==
    call.op = "none" => \A v \in {UNGUESSED, FUZZY_MATCH, EXACT_MATCH} :
        /\ getTotalNumber(code) = Cardinality({ pos \in Positions(code) : At(code, pos) # Blank })
        /\ getGuessedNumber(code, BlanksSetTo(code, state, v)) = getGuessedNumber(code, state)
        /\ check(code, BlanksSetTo(code, state, v)) = check(code, state)
        /\ posVec(code, BlanksSetTo(code, state, v)) = posVec(code, state)
        /\ revealOutcomes(code, BlanksSetTo(code, state, v))
             = { BlanksSetTo(code, st, v) : st \in revealOutcomes(code, state) }
        /\ \A ph \in Placeholders :
              getMasked(code, BlanksSetTo(code, state, v), ph[1], ph[2])
                = getMasked(code, state, ph[1], ph[2])

\* a grid on which guesses have left EXACT_MATCH on one blank position and
\* FUZZY_MATCH on another, with a non-blank position still UNGUESSED
C31_Witness ==
    /\ call.op = "none"
    /\ \E pos \in Positions(code) : At(code, pos) = Blank /\ At(state, pos) = EXACT_MATCH
    /\ \E pos \in Positions(code) : At(code, pos) = Blank /\ At(state, pos) = FUZZY_MATCH
    /\ \E pos \in Positions(code) : At(code, pos) # Blank /\ At(state, pos) = UNGUESSED

\* the positions of the exact windows of a guess and, with fuzzy matching
\* allowed, of its fuzzy windows, whatever the order they are scanned in
InExact(c, g) == Covered(ExactWindows(c, g), g)
InFuzzy(c, g, fz) == IF fz THEN Covered(NearWindows(c, g), g) ELSE {}

\* C32: after an accepted guess a position is EXACT_MATCH iff it was so
\* before or lies in an exact window of the guess; otherwise it is
\* FUZZY_MATCH iff it was so before or lies in a fuzzy window of the guess;
\* otherwise it is still UNGUESSED: the grid does not depend on the order
\* the windows were scanned in
C32_OrderIndependence ==
    (GuessReturned /\ Accepted(call.guess)) =>
        \A pos \in Positions(code) :
            At(state, pos) =
                IF At(call.before, pos) = EXACT_MATCH \/ pos \in InExact(code, call.guess)
                THEN EXACT_MATCH
                ELSE IF \/ At(call.before, pos) = FUZZY_MATCH
                        \/ pos \in InFuzzy(code, call.guess, snippetFuzzy)
                THEN FUZZY_MATCH
                ELSE UNGUESSED

\* a guess whose fuzzy window came first in the scan and marked an
\* UNGUESSED position that a later exact window of the same line set to
\* EXACT_MATCH, next to a fuzzy window over a position that was EXACT_MATCH
C32_Witness ==
    /\ GuessReturned
    /\ snippetFuzzy
    /\ \E w1 \in call.fuzzy : \E w2 \in call.exact :
          /\ w1[1] = w2[1]
          /\ w1[2] < w2[2]
          /\ \E pos \in Covered({w1}, call.guess) \cap Covered({w2}, call.guess) :
                At(call.before, pos) = UNGUESSED /\ At(state, pos) = EXACT_MATCH
    /\ \E w \in call.fuzzy : \E pos \in Covered({w}, call.guess) :
          /\ At(call.before, pos) = EXACT_MATCH
          /\ pos \notin InExact(code, call.guess)

\* C33: getTotalNumber() is the same before and after every guess() and
\* reveal(), getGuessedNumber() never decreases over them, and in every
\* reachable state 0 <= getGuessedNumber() <= getTotalNumber()
C33_ProgressCounters ==
    /\ [](/\ 0 <= getGuessedNumber(code, state)
          /\ getGuessedNumber(code, state) <= getTotalNumber(code))
    /\ [][/\ code' = code
          /\ getTotalNumber(code') = getTotalNumber(code)
          /\ getGuessedNumber(code', state') >= getGuessedNumber(code, state)]_vars

\* a grid brought to getGuessedNumber() = getTotalNumber() by a reveal()
\* after a guess had fuzzy-marked it
C33_Witness ==
    /\ call.op = "reveal"
    /\ getTotalNumber(code) > 1
    /\ getGuessedNumber(code, call.before) < getTotalNumber(code)
    /\ getGuessedNumber(code, state) = getTotalNumber(code)
    /\ \E pos \in Positions(code) : At(call.before, pos) = FUZZY_MATCH

\* C34: in a guess-limited session the guess counter never exceeds
\* maxGuesses; the player is asked for input only below the limit; a session
\* whose counter has reached maxGuesses has ended or is at the console's
\* poll, whose only step ends it as Won or Lost: no session goes on past
\* maxGuesses accepted guesses
C34_LimitedTerminates ==
    /\ []((Started /\ mode = "guessLimited") =>
            /\ guesses <= maxGuesses
            /\ pc \in {"input", "shown"} => guesses < maxGuesses
            /\ guesses = maxGuesses => (Ended \/ (ui = "console" /\ pc = "poll"))
            /\ Ended => (Len(gameHistory) = 1 /\ Outcome \in {"Win", "Lose"}))
    /\ [][(mode = "guessLimited" /\ pc = "poll" /\ guesses = maxGuesses) =>
             (pc' = "ended" /\ guesses' = guesses)]_vars

\* a console session ended at the poll that followed its 30th accepted
\* guess, 6 assist reveals having been applied on the way
C34_Witness ==
    /\ mode = "guessLimited"
    /\ ui = "console"
    /\ Ended /\ ~Resigned
    /\ guesses = maxGuesses
    /\ reveals = maxGuesses \div revealGuesses
    /\ call.op = "none"

\* C35: within a session showPID and the game's fuzzyAllowed never go from
\* true to false, showPID goes from false to true only in makeGuess("P") and
\* fuzzyAllowed only in makeGuess("F"); so the score a point session is
\* recorded with is computed with every flag that was ever set in it
C35_TogglesOneWay ==
    /\ [][Started =>
            /\ showPID => showPID'
            /\ fuzzyAllowed => fuzzyAllowed'
            /\ (~showPID /\ showPID') => MakeGuessStep(TokenP)
            /\ (~fuzzyAllowed /\ fuzzyAllowed') => MakeGuessStep(TokenF)]_vars
    /\ []((Ended /\ mode = "point") =>
            gameHistory[1].value
              = calcPoint(code, state, totalNumber, guesses, showPID, fuzzyAllowed))

\* a point session in which "P" and "F" were typed early, resigned several
\* turns later with both flags still on
C35_Witness ==
    /\ Resigned
    /\ mode = "point"
    /\ showPID /\ fuzzyAllowed
    /\ guesses > 2
    /\ ~snippetFuzzy

\* C36: on a snippet without guessable characters isFinished() is true
\* from start() on, and a guess-limited or time-attack session on it that
\* ends at a poll of its driver ends as Won with no guess counted
C36_ZeroGuessableWonAtOnce ==
    (Started /\ getTotalNumber(code) = 0) =>
        /\ isFinished(code, state)
        /\ (Ended /\ ~Resigned /\ mode \in {"guessLimited", "timeAttack"}) =>
              (Outcome = "Win" /\ guesses = 0)

\* an auto-guess request being answered
AutoStep == call.op = "none" /\ call'.op = "auto"

\* C37: answering "A" (console) or the Auto button (GUI) changes neither
\* the guess counter, the grid, the toggles, the number of reveals nor the
\* timestamps, takes no turn, ends no session and writes no History Record;
\* the hint generator's count does not go back and stays within its
\* keyword list
C37_AutoGuessFrame ==
    [][AutoStep =>
        /\ UNCHANGED << code, state, snippetFuzzy, guesses, fuzzyAllowed, showPID, reveals,
                        startTime, lastRevealTime, maxGuesses, maxTime, totalNumber,
                        points, gameHistory, mode, config >>
        /\ pc' \in {"poll", "shown"}
        /\ msg'.kind = "hint"
        /\ autoCount' >= autoCount
        /\ autoCount' <= Len(keywords)
        /\ (autoCount < Len(keywords)) => autoCount' > autoCount]_vars

\* a hint asked in a time-attack session after a turn, with an assist due:
\* "int" is on display, so the generator passed it and suggested "for"
C37_Witness ==
    /\ call.op = "auto"
    /\ mode = "timeAttack"
    /\ guesses = 1
    /\ now - lastRevealTime >= revealTime
    /\ autoCount = 2
    /\ call.guess = <<"f", "o", "r">>
    /\ Visited(call.masked, <<"i", "n", "t">>)

====
